---- MODULE Spec2Model ----
(***************************************************************************)
(* GoChat: the chat room served over net/rpc (server/server.go) and the    *)
(* poll loop of the interactive client.                                    *)
(*                                                                         *)
(* Every RPC handler runs under ChatRoom.mu, so in Spec one handler call   *)
(* is one atomic action; SpecConc has the handlers run on concurrent        *)
(* workers that take and release the lock, SpecClient the two goroutines   *)
(* of the client program.  Names and message texts are strings; fmt.Sprintf is     *)
(* string concatenation with the decimal rendering of the integer.         *)
(* Timestamps (Message.Time, Client.JoinedAt) are write-only in the source *)
(* and are left out, as is ChatRoom.nameUsage, which is created empty and  *)
(* never read or written again.                                            *)
(***************************************************************************)
EXTENDS Integers, Sequences, FiniteSets, TLC

VARIABLES clients, logs, nextID, call, proc, logCap, main, mu, wk

vars == <<clients, logs, nextID, call, proc, logCap, main, mu, wk>>

----------------------------------------------------------------------------
(* Program constants *)

\* for i := 1; i <= 99; i++
MaxSuffix == 99

\* time.Now().UnixNano() % 9999
TimeMod == 9999

(* Bounds of the exploration *)

\* messages appended to the log in one run
MaxLog == 3

\* messages appended on top of the crowded room of SpecCrowded
MaxCrowdLog == 2

\* messages appended to the log in one run of SpecConc
MaxConcLog == 2

\* concurrent workers serving calls in SpecConc
NumWorkers == 2

\* lastMsgID arguments offered to a raw GetUpdates call: 0 .. MaxLast
MaxLast == 2

----------------------------------------------------------------------------
(* Inputs *)

\* requested names of Join
Names == {"", "Guest1", "Alice", "System"}

\* ids handed to Send, GetUpdates and Leave by arbitrary RPC callers
Ids == {"Guest", "Alice", "System"}

\* message texts (the empty text is accepted by Send)
Texts == {"hi", ""}

\* readings of time.Now().UnixNano(); they straddle a multiple of TimeMod
UnixNanos == {TimeMod - 1, TimeMod}

LastIDs == 0..MaxLast

----------------------------------------------------------------------------
(* Data model *)

\* type Message struct (Time omitted)
Message(id, sender, content) ==
    [ID |-> id, Sender |-> sender, Content |-> content]

\* type Client struct (JoinedAt omitted)
Client(id, lastSeen, original) ==
    [ID |-> id, LastSeen |-> lastSeen, Original |-> original]

\* a room value: the three fields the handlers read and write
Room(c, l, n) == [clients |-> c, logs |-> l, nextID |-> n]

\* func NewChatRoom
NewChatRoom == Room(<<>>, <<>>, 1)

\* zero values of the reply structs, as net/rpc allocates them per call
ZeroJoinReply == [Success |-> FALSE, AssignedName |-> "", Message |-> ""]
ZeroSendReply == [Success |-> FALSE]
ZeroUpdateReply == [Messages |-> <<>>, NewMsgID |-> 0]

\* the error values of the handlers
NoError == "nil"
ErrNotRegistered == "user not registered"
ErrUnknownClient == "unknown client"

\* fmt.Sprintf("%s%d", base, i)
Candidate(base, i) == base \o ToString(i)

\* fmt.Sprintf("%s_%d", base, time.Now().UnixNano()%9999)
Fallback(base, now) == base \o "_" \o ToString(now % TimeMod)

\* fmt.Sprintf("User %s joined the chat", chosen)
JoinNotice(name) == "User " \o name \o " joined the chat"

\* fmt.Sprintf("User %s left the chat", args.ID)
LeaveNotice(name) == "User " \o name \o " left the chat"

----------------------------------------------------------------------------
(* ChatRoom.assignName *)

\* (variant: the loop starts at i = 0)
FreeSuffixesFromZero(reg, base) ==
    {i \in 0..MaxSuffix : Candidate(base, i) \notin DOMAIN reg}

\* the suffixes i of the loop "for i := 1; i <= 99; i++" whose candidate is
\* not a key of the registry
FreeSuffixes(reg, base) ==
    {i \in 1..MaxSuffix : Candidate(base, i) \notin DOMAIN reg}

\* the probe loop returns at the first such i; when there is none the
\* fallback name is returned
ProbeSuffix(reg, base, now) ==
    LET free == FreeSuffixes(reg, base)
    IN  IF free = {}
        THEN Fallback(base, now)
        ELSE Candidate(base, CHOOSE i \in free : \A j \in free : i <= j)

\* the base name: "Guest" for the empty request
BaseName(requested) == IF requested = "" THEN "Guest" ELSE requested

assignName(reg, requested, now) ==
    LET base == BaseName(requested)
    IN  IF base \notin DOMAIN reg
        THEN base
        ELSE ProbeSuffix(reg, base, now)

----------------------------------------------------------------------------
(* The handlers as functions from a room and the arguments to the room     *)
(* after the call, the reply and the error.                                *)

Outcome(room, reply, err) == [room |-> room, reply |-> reply, err |-> err]

\* cr.clients[chosen] = &Client{...}: insert or overwrite
PutClient(reg, c) == (c.ID :> c) @@ reg

\* delete(cr.clients, id)
DeleteClient(reg, id) == [n \in DOMAIN reg \ {id} |-> reg[n]]

\* ChatRoom.Join after assignName has returned `chosen`
JoinCommit(room, chosen, requested) ==
    LET sys == Message(room.nextID, "System", JoinNotice(chosen))
    IN  Outcome(
            Room(PutClient(room.clients,
                           Client(chosen, room.nextID - 1, requested)),
                 Append(room.logs, sys),
                 room.nextID + 1),
            [Success |-> TRUE, AssignedName |-> chosen,
             Message |-> "Welcome! You are now " \o chosen],
            NoError)

\* ChatRoom.Join
JoinCall(room, requested, now) ==
    JoinCommit(room, assignName(room.clients, requested, now), requested)

\* (variant: the message is appended before the sender is looked up)
SendCallAppendsFirst(room, id, text) ==
    LET msg == Message(room.nextID, id, text)
    IN  IF id \notin DOMAIN room.clients
        THEN Outcome(Room(room.clients, Append(room.logs, msg),
                          room.nextID + 1),
                     ZeroSendReply, ErrNotRegistered)
        ELSE Outcome(
                 Room([room.clients EXCEPT ![id].LastSeen = msg.ID],
                      Append(room.logs, msg),
                      room.nextID + 1),
                 [Success |-> TRUE],
                 NoError)

\* cl.LastSeen = msg.ID on the Client that the lookup returned (a write to
\* a Client that has left the registry meanwhile does not show in it)
MarkSeen(reg, id, msgID) ==
    [n \in DOMAIN reg |->
        IF n = id THEN [reg[n] EXCEPT !.LastSeen = msgID] ELSE reg[n]]

\* (variant: cl.LastSeen is not assigned)
SendCommitKeepsLastSeen(room, id, text) ==
    LET msg == Message(room.nextID, id, text)
    IN  Outcome(
            Room(room.clients, Append(room.logs, msg), room.nextID + 1),
            [Success |-> TRUE],
            NoError)

\* ChatRoom.Send after the lookup of args.ID has succeeded
SendCommit(room, id, text) ==
    LET msg == Message(room.nextID, id, text)
    IN  Outcome(
            Room(MarkSeen(room.clients, id, msg.ID),
                 Append(room.logs, msg),
                 room.nextID + 1),
            [Success |-> TRUE],
            NoError)

\* ChatRoom.Send
SendCall(room, id, text) ==
    IF id \notin DOMAIN room.clients
    THEN Outcome(room, ZeroSendReply, ErrNotRegistered)
    ELSE SendCommit(room, id, text)

\* (variant: the notice of the caller's own Join is skipped as well)
ScanNewListHidesOwnNotice(l, id, lastMsgID) ==
    SelectSeq(l, LAMBDA m : /\ m.ID > lastMsgID
                            /\ m.Sender # id
                            /\ m.Content # JoinNotice(id))

\* (variant: the newest message comes first)
ScanNewListNewestFirst(l, id, lastMsgID) ==
    LET old == SelectSeq(l, LAMBDA m : m.ID > lastMsgID /\ m.Sender # id)
    IN  [i \in 1..Len(old) |-> old[Len(old) + 1 - i]]

\* (variant: the "no echo" test is missing)
ScanNewListWithEcho(l, id, lastMsgID) ==
    SelectSeq(l, LAMBDA m : m.ID > lastMsgID)

\* the loop of ChatRoom.GetUpdates appends to newList, in log order, every
\* message with ID > lastMsgID that the "no echo" test does not skip
ScanNewList(l, id, lastMsgID) ==
    SelectSeq(l, LAMBDA m : m.ID > lastMsgID /\ m.Sender # id)

\* (variant: maxID starts as 0)
ScanMaxIDFromZero(newList, lastMsgID) ==
    IF newList = <<>> THEN 0 ELSE newList[Len(newList)].ID

\* (variant: maxID is assigned at the first append only)
ScanMaxIDFirst(newList, lastMsgID) ==
    IF newList = <<>> THEN lastMsgID ELSE newList[1].ID

\* maxID starts as lastMsgID and is assigned m.ID right after each append
\* to newList: it ends as the ID of the last message appended
ScanMaxID(newList, lastMsgID) ==
    IF newList = <<>> THEN lastMsgID ELSE newList[Len(newList)].ID

\* (variant: the call records lastMsgID as the caller's LastSeen)
GetUpdatesCallMarksSeen(room, id, lastMsgID) ==
    IF id \notin DOMAIN room.clients
    THEN Outcome(room, ZeroUpdateReply, ErrUnknownClient)
    ELSE LET newList == ScanNewList(room.logs, id, lastMsgID)
         IN  Outcome(Room([room.clients EXCEPT ![id].LastSeen = lastMsgID],
                          room.logs, room.nextID),
                     [Messages |-> newList,
                      NewMsgID |-> ScanMaxID(newList, lastMsgID)],
                     NoError)

\* ChatRoom.GetUpdates
GetUpdatesCall(room, id, lastMsgID) ==
    IF id \notin DOMAIN room.clients
    THEN Outcome(room, ZeroUpdateReply, ErrUnknownClient)
    ELSE LET newList == ScanNewList(room.logs, id, lastMsgID)
         IN  Outcome(room,
                     [Messages |-> newList,
                      NewMsgID |-> ScanMaxID(newList, lastMsgID)],
                     NoError)

\* (variant: cr.nextID++ is missing)
LeaveCallStaleCounter(room, id) ==
    IF id \notin DOMAIN room.clients
    THEN Outcome(room, ZeroJoinReply, NoError)
    ELSE Outcome(
             Room(DeleteClient(room.clients, id),
                  Append(room.logs,
                         Message(room.nextID, "System", LeaveNotice(id))),
                  room.nextID),
             [Success |-> TRUE, AssignedName |-> "",
              Message |-> "Disconnected"],
             NoError)

\* (variant: the existence check is missing)
LeaveCallUnchecked(room, id) ==
    Outcome(
        Room(DeleteClient(room.clients, id),
             Append(room.logs,
                    Message(room.nextID, "System", LeaveNotice(id))),
             room.nextID + 1),
        [Success |-> TRUE, AssignedName |-> "", Message |-> "Disconnected"],
        NoError)

\* ChatRoom.Leave after the existence check has succeeded
LeaveCommit(room, id) ==
    LET leaveMsg == Message(room.nextID, "System", LeaveNotice(id))
    IN  Outcome(
            Room(DeleteClient(room.clients, id),
                 Append(room.logs, leaveMsg),
                 room.nextID + 1),
            [Success |-> TRUE, AssignedName |-> "",
             Message |-> "Disconnected"],
            NoError)

\* ChatRoom.Leave
LeaveCall(room, id) ==
    IF id \notin DOMAIN room.clients
    THEN Outcome(room, ZeroJoinReply, NoError)
    ELSE LeaveCommit(room, id)

----------------------------------------------------------------------------
(* State *)

\* the room the server holds now
Now == Room(clients, logs, nextID)

\* the record of the latest RPC call: method, arguments, reply, error, and
\* whether the followed client program ("client") or another caller ("rpc")
\* made it
Call(op, args, out, by) ==
    [op |-> op, args |-> args, reply |-> out.reply, err |-> out.err,
     by |-> by]

NoCall == [op |-> "none", args |-> <<>>, reply |-> <<>>, err |-> NoError,
           by |-> "rpc"]

\* a client program before its Join
\* (pc: "start" before Join, "polling" while the receiver runs, "lost" after
\* a failed poll; shown: the messages printed so far; joinMsgID: the id of
\* the notice of its own Join)
FreshProc == [pc |-> "start", username |-> "", lastSeen |-> 0,
              shown |-> <<>>, joinMsgID |-> 0]

\* the room takes the value r
SetRoom(r) ==
    /\ clients' = r.clients
    /\ logs' = r.logs
    /\ nextID' = r.nextID

\* ChatRoom.mu, a sync.RWMutex: w is the worker that holds the writer side
\* (0: nobody), readers the workers that hold a read lock, blocked the
\* workers whose RLock waits for the writer to unlock
FreeMutex == [w |-> 0, readers |-> {}, blocked |-> {}]

\* a worker that serves no call
IdleWorker == [pc |-> "idle", op |-> "none", args |-> <<>>, chosen |-> ""]

Workers == 1..NumWorkers

\* nothing runs concurrently: the lock is free and every worker idle
Sequential ==
    /\ mu = FreeMutex
    /\ wk = [w \in Workers |-> IdleWorker]

\* the exploration stops appending at logCap messages
MayAppend == Len(logs) < logCap

\* further callers join `room` with the empty name, one after the other,
\* until its log holds n messages
RECURSIVE JoinUntil(_, _)
JoinUntil(room, n) ==
    IF Len(room.logs) >= n
    THEN room
    ELSE JoinUntil(JoinCall(room, "", TimeMod).room, n)

\* the fresh room after MaxSuffix + 1 Join("") calls: "Guest" and
\* "Guest1" .. "Guest99" are registered (built in two runs of calls, which
\* keeps the evaluation shallow)
CrowdedRoom ==
    JoinUntil(JoinUntil(NewChatRoom, (MaxSuffix + 1) \div 2), MaxSuffix + 1)

Init ==
    /\ clients = NewChatRoom.clients
    /\ logs = NewChatRoom.logs
    /\ nextID = NewChatRoom.nextID
    /\ call = NoCall
    /\ proc = FreshProc
    /\ logCap = MaxLog
    /\ main = "chat"
    /\ Sequential

\* the same program, observed from the moment MaxSuffix + 1 callers have
\* joined the fresh room with the empty name
InitCrowded ==
    /\ clients = CrowdedRoom.clients
    /\ logs = CrowdedRoom.logs
    /\ nextID = CrowdedRoom.nextID
    /\ call = NoCall
    /\ proc = FreshProc
    /\ logCap = MaxSuffix + 1 + MaxCrowdLog
    /\ main = "chat"
    /\ Sequential

----------------------------------------------------------------------------
(* RPC calls of arbitrary callers *)

Join(requested, now) ==
    /\ MayAppend
    /\ LET out == JoinCall(Now, requested, now)
       IN  /\ SetRoom(out.room)
           /\ call' = Call("Join", <<requested>>, out, "rpc")
    /\ UNCHANGED <<proc, logCap, main, mu, wk>>

Send(id, text) ==
    /\ id \in DOMAIN clients => MayAppend
    /\ LET out == SendCall(Now, id, text)
       IN  /\ SetRoom(out.room)
           /\ call' = Call("Send", <<id, text>>, out, "rpc")
    /\ UNCHANGED <<proc, logCap, main, mu, wk>>

GetUpdates(id, lastMsgID) ==
    /\ LET out == GetUpdatesCall(Now, id, lastMsgID)
       IN  /\ SetRoom(out.room)
           /\ call' = Call("GetUpdates", <<id, lastMsgID>>, out, "rpc")
    /\ UNCHANGED <<proc, logCap, main, mu, wk>>

Leave(id) ==
    /\ id \in DOMAIN clients => MayAppend
    /\ LET out == LeaveCall(Now, id)
       IN  /\ SetRoom(out.room)
           /\ call' = Call("Leave", <<id>>, out, "rpc")
    /\ UNCHANGED <<proc, logCap, main, mu, wk>>

----------------------------------------------------------------------------
(* The client program: Join at startup, then the receiver's poll loop.      *)
(* One client program is followed with its cursor; the other callers are   *)
(* the arbitrary RPC calls above.                                          *)

\* conn.Call("ChatRoom.Join", ...); username := joinResp.AssignedName;
\* lastSeen := 0; the receiver goroutine starts
ClientJoin(requested, now) ==
    /\ proc.pc = "start"
    /\ MayAppend
    /\ LET out == JoinCall(Now, requested, now)
       IN  /\ SetRoom(out.room)
           /\ call' = Call("Join", <<requested>>, out, "client")
           /\ proc' = [pc |-> "polling", username |-> out.reply.AssignedName,
                       lastSeen |-> 0, shown |-> <<>>, joinMsgID |-> nextID]
    /\ UNCHANGED <<logCap, main, mu, wk>>

\* (variant: lastSeen is not advanced)
AfterPollKeepsCursor(pr, out) ==
    IF out.err # NoError
    THEN [pr EXCEPT !.pc = "lost"]
    ELSE IF Len(out.reply.Messages) > 0
         THEN [pr EXCEPT !.shown = pr.shown \o out.reply.Messages]
         ELSE pr

\* what one round of the receiver does with the outcome of its GetUpdates
AfterPoll(pr, out) ==
    IF out.err # NoError
    THEN [pr EXCEPT !.pc = "lost"]
    ELSE IF Len(out.reply.Messages) > 0
         THEN [pr EXCEPT !.shown = pr.shown \o out.reply.Messages,
                         !.lastSeen = out.reply.NewMsgID]
         ELSE pr

\* one round of the receiver goroutine
ClientPoll ==
    /\ proc.pc = "polling"
    /\ LET out == GetUpdatesCall(Now, proc.username, proc.lastSeen)
       IN  /\ SetRoom(out.room)
           /\ call' = Call("GetUpdates", <<proc.username, proc.lastSeen>>, out,
                           "client")
           /\ proc' = AfterPoll(proc, out)
    /\ UNCHANGED <<logCap, main, mu, wk>>

----------------------------------------------------------------------------

Next ==
    \/ \E requested \in Names, now \in UnixNanos : Join(requested, now)
    \/ \E id \in Ids, text \in Texts : Send(id, text)
    \/ \E id \in Ids, lastMsgID \in LastIDs : GetUpdates(id, lastMsgID)
    \/ \E id \in Ids : Leave(id)
    \/ \E requested \in Names, now \in UnixNanos : ClientJoin(requested, now)
    \/ ClientPoll

Spec == Init /\ [][Next]_vars

SpecCrowded == InitCrowded /\ [][Next]_vars

\* the inputs of the end-to-end scenario of a fresh room
ScenarioNames == {"", "Guest"}

ScenarioIds == {"Guest", "Guest1"}

NextScenario ==
    \/ \E requested \in ScenarioNames, now \in UnixNanos :
          Join(requested, now)
    \/ \E id \in ScenarioIds, text \in Texts : Send(id, text)
    \/ \E id \in ScenarioIds, lastMsgID \in LastIDs :
          GetUpdates(id, lastMsgID)
    \/ \E id \in ScenarioIds : Leave(id)

SpecScenario == Init /\ [][NextScenario]_vars

----------------------------------------------------------------------------
(* The client program with its two goroutines.  main holds the position of *)
(* the main goroutine: "chat" (startup and the chat loop), "stopping" (the *)
(* deferred function is at its send on recvStop), "leaving" (before its    *)
(* Leave call), "done" (the process has ended).  proc.pc holds the         *)
(* position of the receiver: "polling" (in its select loop), "lost" (at    *)
(* its own send on recvStop after a failed GetUpdates), "stopped"          *)
(* (returned).  recvStop is unbuffered: a send completes only together     *)
(* with a receive, and the only receive is the select of the receiver.     *)

\* lines the user types
Lines == {"exit", "", "hi"}

\* one round of the chat loop: "exit" breaks, an empty line is skipped, any
\* other line is sent, and a failed Send breaks
ClientLine(msg) ==
    /\ main = "chat"
    /\ proc.pc # "start"
    /\ IF msg = "exit"
       THEN /\ main' = "stopping"
            /\ UNCHANGED <<clients, logs, nextID, call>>
       ELSE IF msg = ""
       THEN UNCHANGED <<clients, logs, nextID, call, main>>
       ELSE /\ proc.username \in DOMAIN clients => MayAppend
            /\ LET out == SendCall(Now, proc.username, msg)
               IN  /\ SetRoom(out.room)
                   /\ call' = Call("Send", <<proc.username, msg>>, out,
                                   "client")
                   /\ main' = IF out.err # NoError THEN "stopping" ELSE "chat"
    /\ UNCHANGED <<proc, logCap, mu, wk>>

\* recvStop <- true of the deferred function meets case <-recvStop of the
\* receiver's select: the receiver returns
ClientStop ==
    /\ main = "stopping"
    /\ proc.pc = "polling"
    /\ main' = "leaving"
    /\ proc' = [proc EXCEPT !.pc = "stopped"]
    /\ UNCHANGED <<clients, logs, nextID, call, logCap, mu, wk>>

\* conn.Call("ChatRoom.Leave", ...) of the deferred function; main returns
\* (the one call that may append beyond logCap, so that the cap never keeps
\* the shutdown from completing)
ClientLeave ==
    /\ main = "leaving"
    /\ LET out == LeaveCall(Now, proc.username)
       IN  /\ SetRoom(out.room)
           /\ call' = Call("Leave", <<proc.username>>, out, "client")
    /\ main' = "done"
    /\ UNCHANGED <<proc, logCap, mu, wk>>

NextClient ==
    \/ \E requested \in Names, now \in UnixNanos : Join(requested, now)
    \/ \E id \in Ids, text \in Texts : Send(id, text)
    \/ \E id \in Ids, lastMsgID \in LastIDs : GetUpdates(id, lastMsgID)
    \/ \E id \in Ids : Leave(id)
    \/ \E requested \in Names, now \in UnixNanos : ClientJoin(requested, now)
    \/ ClientPoll
    \/ \E msg \in Lines : ClientLine(msg)
    \/ ClientStop
    \/ ClientLeave

\* both goroutines run whenever they can: the receiver's timer fires every
\* 250 ms, and the deferred function runs as soon as the chat loop is left
SpecClient ==
    /\ Init
    /\ [][NextClient]_vars
    /\ WF_vars(ClientPoll) /\ WF_vars(ClientStop) /\ WF_vars(ClientLeave)

----------------------------------------------------------------------------
(* A session that keeps calling after its Leave.  The server serves every  *)
(* call of every connection and knows a caller by the id in the arguments  *)
(* alone, so a caller whose Leave has returned (main = "done") can still   *)
(* send calls with the id it was assigned.                                 *)

LateSend(text) ==
    /\ main = "done"
    /\ proc.username \in DOMAIN clients => MayAppend
    /\ LET out == SendCall(Now, proc.username, text)
       IN  /\ SetRoom(out.room)
           /\ call' = Call("Send", <<proc.username, text>>, out, "client")
    /\ UNCHANGED <<proc, logCap, main, mu, wk>>

LateGetUpdates(lastMsgID) ==
    /\ main = "done"
    /\ LET out == GetUpdatesCall(Now, proc.username, lastMsgID)
       IN  /\ SetRoom(out.room)
           /\ call' = Call("GetUpdates", <<proc.username, lastMsgID>>, out,
                           "client")
    /\ UNCHANGED <<proc, logCap, main, mu, wk>>

NextSession ==
    \/ NextClient
    \/ \E text \in Texts : LateSend(text)
    \/ \E lastMsgID \in LastIDs : LateGetUpdates(lastMsgID)

SpecSession == Init /\ [][NextSession]_vars

----------------------------------------------------------------------------
(* The handlers on concurrent workers.  net/rpc serves every call on a     *)
(* goroutine of its own; a handler takes ChatRoom.mu on entry, releases it *)
(* by a deferred unlock, and its reads and writes of the room are separate *)
(* steps in between.                                                       *)
(* pc of a worker: "idle", "lock" (at Lock/RLock), "drain" (Lock holds the *)
(* writer side and waits for the readers to leave), "blocked" (RLock waits *)
(* for the writer), "check" (lock held, before the handler's first read),  *)
(* "mutate" (check passed, before the writes), "unlock" (handler returned, *)
(* deferred unlock not yet run).                                           *)

\* the calls the workers serve
ConcCalls ==
    { <<"Join", <<"">>>>, <<"Send", <<"Guest", "hi">>>>,
      <<"GetUpdates", <<"Guest", 0>>>>, <<"Leave", <<"Guest">>>> }

\* (variant: Send takes the read lock)
LockKindSendShared(op) ==
    IF op \in {"GetUpdates", "Send"} THEN "read" ELSE "write"

\* the side of ChatRoom.mu a handler takes: GetUpdates RLock, the others Lock
LockKind(op) ==
    IF op = "GetUpdates" THEN "read" ELSE "write"

\* the worker holds the lock (either side)
InCS(w) == wk[w].pc \in {"check", "mutate", "unlock"}

\* calls in flight that may still append a message
PendingAppends ==
    Cardinality({ v \in Workers :
                    /\ wk[v].op \in {"Join", "Send", "Leave"}
                    /\ wk[v].pc \in {"lock", "drain", "blocked", "check",
                                     "mutate"} })

InitConc ==
    /\ clients = NewChatRoom.clients
    /\ logs = NewChatRoom.logs
    /\ nextID = NewChatRoom.nextID
    /\ call = NoCall
    /\ proc = FreshProc
    /\ logCap = MaxConcLog
    /\ main = "chat"
    /\ Sequential

\* net/rpc starts the handler of an incoming call on worker w
Dispatch(w, c) ==
    /\ wk[w].pc = "idle"
    /\ c[1] # "GetUpdates" => Len(logs) + PendingAppends < logCap
    /\ wk' = [wk EXCEPT ![w] = [pc |-> "lock", op |-> c[1], args |-> c[2],
                                chosen |-> ""]]
    /\ UNCHANGED <<clients, logs, nextID, call, proc, logCap, main, mu>>

\* cr.mu.Lock(), first half: take the writer side, which announces the
\* writer to the readers
LockW(w) ==
    /\ wk[w].pc = "lock"
    /\ LockKind(wk[w].op) = "write"
    /\ mu.w = 0
    /\ mu' = [mu EXCEPT !.w = w]
    /\ wk' = [wk EXCEPT ![w].pc = "drain"]
    /\ UNCHANGED <<clients, logs, nextID, call, proc, logCap, main>>

\* cr.mu.Lock(), second half: the active readers have left
LockDrained(w) ==
    /\ wk[w].pc = "drain"
    /\ mu.readers = {}
    /\ wk' = [wk EXCEPT ![w].pc = "check"]
    /\ UNCHANGED <<clients, logs, nextID, call, proc, logCap, main, mu>>

\* cr.mu.RLock(): enter unless a writer is announced, else wait for its
\* Unlock
RLock(w) ==
    /\ wk[w].pc = "lock"
    /\ LockKind(wk[w].op) = "read"
    /\ IF mu.w = 0
       THEN /\ mu' = [mu EXCEPT !.readers = @ \cup {w}]
            /\ wk' = [wk EXCEPT ![w].pc = "check"]
       ELSE /\ mu' = [mu EXCEPT !.blocked = @ \cup {w}]
            /\ wk' = [wk EXCEPT ![w].pc = "blocked"]
    /\ UNCHANGED <<clients, logs, nextID, call, proc, logCap, main>>

\* the handler's reads: assignName in Join, the registry lookup in Send and
\* Leave (an early return when it fails), the whole of GetUpdates
Check(w) ==
    /\ wk[w].pc = "check"
    /\ LET op == wk[w].op
           a  == wk[w].args
       IN  CASE op = "Join" ->
                  /\ \E now \in UnixNanos :
                        wk' = [wk EXCEPT ![w].pc = "mutate",
                                         ![w].chosen =
                                             assignName(clients, a[1], now)]
                  /\ UNCHANGED <<clients, logs, nextID, call>>
             [] op = "Send" ->
                  IF a[1] \in DOMAIN clients
                  THEN /\ wk' = [wk EXCEPT ![w].pc = "mutate"]
                       /\ UNCHANGED <<clients, logs, nextID, call>>
                  ELSE /\ wk' = [wk EXCEPT ![w].pc = "unlock"]
                       /\ call' = Call("Send", a, SendCall(Now, a[1], a[2]),
                                       "rpc")
                       /\ UNCHANGED <<clients, logs, nextID>>
             [] op = "Leave" ->
                  IF a[1] \in DOMAIN clients
                  THEN /\ wk' = [wk EXCEPT ![w].pc = "mutate"]
                       /\ UNCHANGED <<clients, logs, nextID, call>>
                  ELSE /\ wk' = [wk EXCEPT ![w].pc = "unlock"]
                       /\ call' = Call("Leave", a, LeaveCall(Now, a[1]), "rpc")
                       /\ UNCHANGED <<clients, logs, nextID>>
             [] op = "GetUpdates" ->
                  /\ wk' = [wk EXCEPT ![w].pc = "unlock"]
                  /\ call' = Call("GetUpdates", a,
                                  GetUpdatesCall(Now, a[1], a[2]), "rpc")
                  /\ UNCHANGED <<clients, logs, nextID>>
    /\ UNCHANGED <<proc, logCap, main, mu>>

\* the handler's writes to the room and to its reply
Mutate(w) ==
    /\ wk[w].pc = "mutate"
    /\ LET op  == wk[w].op
           a   == wk[w].args
           out == CASE op = "Join" -> JoinCommit(Now, wk[w].chosen, a[1])
                    [] op = "Send" -> SendCommit(Now, a[1], a[2])
                    [] op = "Leave" -> LeaveCommit(Now, a[1])
       IN  /\ SetRoom(out.room)
           /\ call' = Call(op, a, out, "rpc")
    /\ wk' = [wk EXCEPT ![w].pc = "unlock"]
    /\ UNCHANGED <<proc, logCap, main, mu>>

\* (variant: Join, Send and Leave return without unlocking)
UnlockReadersOnly(w) ==
    /\ wk[w].pc = "unlock"
    /\ IF LockKind(wk[w].op) = "write"
       THEN /\ mu' = mu
            /\ wk' = [wk EXCEPT ![w] = IdleWorker]
       ELSE /\ mu' = [mu EXCEPT !.readers = @ \ {w}]
            /\ wk' = [wk EXCEPT ![w] = IdleWorker]
    /\ UNCHANGED <<clients, logs, nextID, call, proc, logCap, main>>

\* defer cr.mu.Unlock() / defer cr.mu.RUnlock(): Unlock lets the readers
\* that waited for the writer in, then frees the writer side
Unlock(w) ==
    /\ wk[w].pc = "unlock"
    /\ IF LockKind(wk[w].op) = "write"
       THEN /\ mu' = [w |-> 0, readers |-> mu.blocked, blocked |-> {}]
            /\ wk' = [v \in Workers |->
                        IF v = w THEN IdleWorker
                        ELSE IF v \in mu.blocked
                             THEN [wk[v] EXCEPT !.pc = "check"]
                             ELSE wk[v]]
       ELSE /\ mu' = [mu EXCEPT !.readers = @ \ {w}]
            /\ wk' = [wk EXCEPT ![w] = IdleWorker]
    /\ UNCHANGED <<clients, logs, nextID, call, proc, logCap, main>>

\* a step of the handler on worker w other than taking the writer side
Proceed(w) ==
    \/ LockDrained(w)
    \/ RLock(w)
    \/ Check(w)
    \/ Mutate(w)
    \/ Unlock(w)

NextConc ==
    \/ \E w \in Workers, c \in ConcCalls : Dispatch(w, c)
    \/ \E w \in Workers : LockW(w)
    \/ \E w \in Workers : LockDrained(w)
    \/ \E w \in Workers : RLock(w)
    \/ \E w \in Workers : Check(w)
    \/ \E w \in Workers : Mutate(w)
    \/ \E w \in Workers : Unlock(w)

\* the Go scheduler runs every runnable goroutine, and sync.Mutex hands the
\* lock to a waiter that has waited long (starvation mode), so a worker
\* whose Lock is possible again and again does get the writer side
SpecConc ==
    /\ InitConc
    /\ [][NextConc]_vars
    /\ \A w \in Workers : WF_vars(Proceed(w)) /\ SF_vars(LockW(w))

----------------------------------------------------------------------------
(* Properties *)

Keys == DOMAIN clients

\* the latest call was a GetUpdates that returned a reply
UpdatesReturned == call.op = "GetUpdates" /\ call.err = NoError

\* the largest element of a non-empty set of integers
Highest(S) == CHOOSE x \in S : \A y \in S : y <= x

\* C1 (Uniqueness): every Join is assigned a name that was not a registry
\* key right before it, and makes the registry one entry larger - also when
\* the base name and base1..base99 are all taken and the time-derived
\* fallback name is used.
C1_JoinAssignsUnusedName ==
    [][call'.op = "Join" =>
          /\ call'.reply.AssignedName \notin Keys
          /\ Cardinality(DOMAIN clients') = Cardinality(Keys) + 1]_vars

\* C2 (Monotonic log): the i-th message of the log has id i, nextID is
\* len(log) + 1, and no step shortens or rewrites the log.
C2_MonotonicLog ==
    /\ [](/\ \A i \in 1..Len(logs) : logs[i].ID = i
          /\ nextID = Len(logs) + 1)
    /\ [][/\ Len(logs') >= Len(logs)
          /\ SubSeq(logs', 1, Len(logs)) = logs]_vars

\* a log that a Join, a Send and a Leave have appended to
C2_Witness ==
    /\ Len(logs) = 3
    /\ \E i \in 1..Len(logs) : logs[i].Sender # "System"
    /\ \E i \in 1..Len(logs), id \in Ids :
          logs[i] = Message(i, "System", LeaveNotice(id))

\* C3 (No-echo): the reply of GetUpdates(A, lastMsgID) holds no message
\* whose sender is A, and holds every message of the log with
\* id > lastMsgID whose sender is not A.
C3_NoEcho ==
    UpdatesReturned =>
        LET A == call.args[1]
            lastMsgID == call.args[2]
            got == call.reply.Messages
        IN  /\ \A k \in 1..Len(got) : got[k].Sender # A
            /\ \A i \in 1..Len(logs) :
                  (logs[i].ID > lastMsgID /\ logs[i].Sender # A)
                      => \E k \in 1..Len(got) : got[k] = logs[i]

\* a reply that holds a message while a message of the caller's own, also
\* newer than lastMsgID, was held back
C3_Witness ==
    /\ UpdatesReturned
    /\ Len(call.reply.Messages) > 0
    /\ \E i \in 1..Len(logs) :
          logs[i].ID > call.args[2] /\ logs[i].Sender = call.args[1]

\* the ids of the log messages newer than lastMsgID, by any sender
NewerIDs(lastMsgID) ==
    {logs[i].ID : i \in {j \in 1..Len(logs) : logs[j].ID > lastMsgID}}

\* the ids of the log messages newer than lastMsgID whose sender is not A
NewerIDsOfOthers(A, lastMsgID) ==
    {logs[i].ID : i \in {j \in 1..Len(logs) :
                            logs[j].ID > lastMsgID /\ logs[j].Sender # A}}

\* C4 (Watermark), as claimed: newMsgID of GetUpdates(A, lastMsgID) is the
\* highest id among all log messages with id > lastMsgID, the caller's own
\* messages included (lastMsgID itself when the log has none).
C4_WatermarkCoversOwnMessages ==
    UpdatesReturned =>
        LET newer == NewerIDs(call.args[2])
        IN  call.reply.NewMsgID =
                IF newer = {} THEN call.args[2] ELSE Highest(newer)

\* C4 (Watermark), amended: newMsgID of GetUpdates(A, lastMsgID) is the
\* highest id among the log messages with id > lastMsgID whose sender is
\* not A, that is the id of the last message returned, and lastMsgID when
\* there is no such message; the caller's own messages do not advance it.
C4_WatermarkIsLastReturned ==
    UpdatesReturned =>
        LET newer == NewerIDsOfOthers(call.args[1], call.args[2])
        IN  call.reply.NewMsgID =
                IF newer = {} THEN call.args[2] ELSE Highest(newer)

\* A sent the newest message of the log, a message of another sender is
\* returned, and the watermark stays below A's message
C4_Witness ==
    /\ UpdatesReturned
    /\ Len(logs) > 0
    /\ logs[Len(logs)].Sender = call.args[1]
    /\ Len(call.reply.Messages) > 0
    /\ call.reply.NewMsgID < logs[Len(logs)].ID

\* the followed client has just completed a round of its poll loop
ClientPolled ==
    /\ UpdatesReturned
    /\ call.by = "client"

\* C5 (Incremental completeness), as claimed: what the polls of a client
\* have returned so far is, in id order and each once, the messages of
\* other senders and the system events appended since the client joined.
C5_PollsReturnMessagesSinceJoin ==
    ClientPolled =>
        proc.shown = SelectSeq(logs, LAMBDA m :
                         /\ m.ID >= proc.joinMsgID
                         /\ (m.Sender # proc.username \/ m.Sender = "System"))

\* C5, amended: what the polls of a client have returned so far is, in id
\* order and each once, every message of the whole log - those appended
\* before the client joined included - whose sender differs from the
\* client's id; between polls it is that part of the log up to the cursor.
C5_PollsReturnWholeLogOfOthers ==
    /\ ClientPolled =>
          proc.shown = SelectSeq(logs, LAMBDA m : m.Sender # proc.username)
    /\ proc.pc # "start" =>
          proc.shown = SelectSeq(logs, LAMBDA m :
                           m.Sender # proc.username /\ m.ID <= proc.lastSeen)

\* a later poll (lastMsgID > 0) that returned new messages to a client that
\* joined a room whose log already held a message
C5_Witness ==
    /\ ClientPolled
    /\ call.args[2] > 0
    /\ Len(call.reply.Messages) > 0
    /\ proc.joinMsgID > 1
    /\ Len(proc.shown) > Len(call.reply.Messages)

\* C6 (Leave reports success): every Leave, also one for an id that is not
\* a registry key, returns no error and a reply with success = true.
C6_LeaveReportsSuccess ==
    call.op = "Leave" => (call.err = NoError /\ call.reply.Success = TRUE)

\* C7 (Idempotent Leave effect): a Leave for an id that is not a registry
\* key changes neither registry, log nor counter; a Leave for a registered
\* id removes that client and appends the one notice "User <id> left the
\* chat" - so of two Leave calls for one id only the first has an effect.
C7_LeaveIdempotentEffect ==
    [][call'.op = "Leave" =>
          LET id == call'.args[1]
          IN  IF id \notin Keys
              THEN UNCHANGED <<clients, logs, nextID>>
              ELSE /\ DOMAIN clients' = Keys \ {id}
                   /\ \A n \in Keys \ {id} : clients'[n] = clients[n]
                   /\ logs' = Append(logs,
                          Message(nextID, "System", LeaveNotice(id)))
                   /\ nextID' = nextID + 1]_vars

\* the second Leave for an id: the id is gone, the log holds exactly one
\* leave notice for it, and the call was the no-op
C7_Witness ==
    /\ call.op = "Leave"
    /\ call.args[1] \notin Keys
    /\ Cardinality({i \in 1..Len(logs) :
           logs[i].Content = LeaveNotice(call.args[1])}) = 1
    /\ logs[Len(logs)].Content = LeaveNotice(call.args[1])

\* C8 (Send by an unknown id): a Send whose id is not a registry key fails
\* with "user not registered" and changes neither the registry (so no
\* client's LastSeen), nor the log, nor the counter.
C8_SendUnregisteredNoMutation ==
    [][(call'.op = "Send" /\ call'.args[1] \notin Keys) =>
          /\ call'.err = ErrNotRegistered
          /\ UNCHANGED <<clients, logs, nextID>>]_vars

\* a failed Send in a room that has clients and messages
C8_Witness ==
    /\ call.op = "Send"
    /\ call.err = ErrNotRegistered
    /\ Keys # {}
    /\ Len(logs) > 1

\* C9 (GetUpdates is read-only and validated): a GetUpdates whose id is not
\* a registry key fails with "unknown client", and no GetUpdates, failed
\* or not, changes the registry, the log or the counter.
C9_GetUpdatesReadOnly ==
    [][call'.op = "GetUpdates" =>
          /\ UNCHANGED <<clients, logs, nextID>>
          /\ call'.args[1] \notin Keys => call'.err = ErrUnknownClient
          /\ call'.args[1] \in Keys => call'.err = NoError]_vars

\* a GetUpdates that returned messages to a registered caller
C9_Witness ==
    /\ UpdatesReturned
    /\ Len(call.reply.Messages) > 1
    /\ call.args[1] \in Keys

\* the suffixes 1..99 whose name base<k> is not a registry key
UnusedSuffixes(base) ==
    {k \in 1..MaxSuffix : (base \o ToString(k)) \notin Keys}

\* C10 (Name allocation): Join(requested) takes base = "Guest" for the
\* empty request and base = requested otherwise; it assigns base when base
\* is not a registry key, and otherwise base<k> for the smallest k in 1..99
\* with base<k> not a registry key.  So three Join("Alice") on a room with
\* no Leave are assigned "Alice", "Alice1", "Alice2".
C10_NameAllocation ==
    /\ [][call'.op = "Join" =>
            LET requested == call'.args[1]
                base == IF requested = "" THEN "Guest" ELSE requested
                assigned == call'.reply.AssignedName
            IN  /\ base \notin Keys => assigned = base
                /\ (base \in Keys /\ UnusedSuffixes(base) # {}) =>
                      \E k \in UnusedSuffixes(base) :
                          /\ assigned = base \o ToString(k)
                          /\ \A j \in 1..(k - 1) :
                                (base \o ToString(j)) \in Keys]_vars
    /\ []((/\ Len(logs) = 3
           /\ Cardinality(Keys) = 3
           /\ \A n \in Keys : clients[n].Original = "Alice")
          => /\ logs[1].Content = JoinNotice("Alice")
             /\ logs[2].Content = JoinNotice("Alice1")
             /\ logs[3].Content = JoinNotice("Alice2")
             /\ Keys = {"Alice", "Alice1", "Alice2"})

\* a Join that skipped a taken suffix: base and base1 are registered and
\* the call was assigned base2
C10_Witness ==
    /\ call.op = "Join"
    /\ call.args[1] = ""
    /\ call.reply.AssignedName = "Guest2"
    /\ {"Guest", "Guest1", "Guest2"} \subseteq Keys

\* the room has seen exactly: a Join("") assigned a, a Join("Guest")
\* assigned b, a Send(a, "hi"), and now GetUpdates(b, 0)
ScenarioPlayed(a, b) ==
    /\ a # b
    /\ Keys = {a, b}
    /\ clients[a].Original = ""
    /\ clients[b].Original = "Guest"
    /\ Len(logs) = 3
    /\ logs[1].Content = JoinNotice(a)
    /\ logs[2].Content = JoinNotice(b)
    /\ logs[3].Sender = a
    /\ logs[3].Content = "hi"
    /\ call.op = "GetUpdates"
    /\ call.args = <<b, 0>>

\* C11 (End-to-end scenario), as claimed: on a fresh room Join("") is
\* assigned "Guest", Join("Guest") is assigned "Guest1", the "hi" of Guest
\* gets id 2, and GetUpdates("Guest1", 0) returns the join notice of Guest
\* and "hi" but not the join notice of Guest1, with newMsgID = 2.
C11_ScenarioAsClaimed ==
    \A a \in Keys, b \in Keys :
        ScenarioPlayed(a, b) =>
            /\ a = "Guest"
            /\ b = "Guest1"
            /\ logs[3].ID = 2
            /\ call.err = NoError
            /\ call.reply.Messages = <<logs[1], logs[3]>>
            /\ call.reply.NewMsgID = 2

\* C11, amended: the two Joins take ids 1 and 2, so "hi" gets id 3; the
\* join notice of Guest1 has sender "System", not "Guest1", so
\* GetUpdates("Guest1", 0) returns all three messages, with newMsgID = 3.
C11_ScenarioAsRun ==
    \A a \in Keys, b \in Keys :
        ScenarioPlayed(a, b) =>
            /\ a = "Guest"
            /\ b = "Guest1"
            /\ logs[3].ID = 3
            /\ call.err = NoError
            /\ call.reply.Messages = <<logs[1], logs[2], logs[3]>>
            /\ call.reply.NewMsgID = 3

\* the scenario has been played to its end
C11_Witness == ScenarioPlayed("Guest", "Guest1")

\* C12: a worker inside Join, Send or Leave holds the lock alone, no other
\* worker being inside any handler (several GetUpdates may be inside
\* together); the room is the one the handler checked for as long as it has
\* not written, so the name a Join is about to register is still unused and
\* the id a Send or Leave found is still registered.
C12_MutualExclusion ==
    \A w \in Workers :
        /\ InCS(w) /\ wk[w].op # "GetUpdates" =>
              /\ mu.w = w
              /\ \A v \in Workers \ {w} : ~InCS(v)
        /\ wk[w].pc = "mutate" =>
              IF wk[w].op = "Join"
              THEN wk[w].chosen \notin DOMAIN clients
              ELSE wk[w].args[1] \in DOMAIN clients

\* two GetUpdates calls are inside the handler together, after a Join has
\* held the lock alone
C12_Witness ==
    \E w \in Workers, v \in Workers :
        /\ v # w
        /\ InCS(w) /\ wk[w].op = "GetUpdates"
        /\ InCS(v) /\ wk[v].op = "GetUpdates"
        /\ Len(logs) > 0

\* worker w completes a GetUpdates call in this step
ScanBy(w) ==
    /\ wk[w].pc = "check"
    /\ wk[w].op = "GetUpdates"
    /\ wk'[w].pc = "unlock"

HoldsNothing(w) ==
    mu.w # w /\ w \notin mu.readers /\ w \notin mu.blocked

\* C14: under fair scheduling every call a worker has started returns; a
\* worker that has returned (by the normal or the early-return path) holds
\* no side of the lock; and whenever a call is in flight some worker can
\* take a step, so the workers are never all blocked.
C14_EveryCallReturns ==
    /\ \A w \in Workers : (wk[w].pc # "idle") ~> (wk[w].pc = "idle")
    /\ [](\A w \in Workers : wk[w].pc \in {"idle", "lock"} => HoldsNothing(w))
    /\ []((\E w \in Workers : wk[w].pc # "idle") =>
             ENABLED (\E w \in Workers : LockW(w) \/ Proceed(w)))

\* a Send has returned early ("user not registered") and released the lock
\* while another call waits for it
C14_Witness ==
    /\ call.op = "Send" /\ call.err = ErrNotRegistered
    /\ \E w \in Workers :
          /\ wk[w].pc = "idle"
          /\ \E v \in Workers : wk[v].pc \in {"lock", "blocked"}
    /\ mu.w = 0

\* the names assignName can return for the requested names
AssignableNames ==
    UNION { {BaseName(r)}
              \cup { Candidate(BaseName(r), i) : i \in 1..MaxSuffix }
              \cup { Fallback(BaseName(r), now) : now \in UnixNanos }
            : r \in Names }

\* the content of a join or leave notice
IsNotice(content) ==
    \E n \in AssignableNames :
        content = JoinNotice(n) \/ content = LeaveNotice(n)

\* C15: every log message whose sender is "System" is a join or leave
\* notice, and the message a successful Send has appended has a sender
\* other than "System", whatever names were requested.
C15_SystemSenderReserved ==
    /\ \A i \in 1..Len(logs) :
          logs[i].Sender = "System" => IsNotice(logs[i].Content)
    /\ call.op = "Send" /\ call.err = NoError =>
          logs[Len(logs)].Sender # "System"

\* C16: a Send(id, message) by a registered id succeeds for any message,
\* the empty one included; it appends exactly the message (counter value
\* before the call, id, message), increments the counter by 1, sets the
\* sender's LastSeen to the id of the new message, reports success, and
\* leaves the registry keys, the sender's other fields and every other
\* client unchanged.
C16_SendEffectAndFrame ==
    [][call'.op = "Send" /\ call'.args[1] \in DOMAIN clients =>
          LET id   == call'.args[1]
              text == call'.args[2]
          IN  /\ call'.err = NoError
              /\ call'.reply = [Success |-> TRUE]
              /\ logs' = Append(logs, Message(nextID, id, text))
              /\ nextID' = nextID + 1
              /\ DOMAIN clients' = DOMAIN clients
              /\ clients'[id] = Client(id, nextID, clients[id].Original)
              /\ \A n \in DOMAIN clients \ {id} : clients'[n] = clients[n]
      ]_vars

\* a registered client has sent the empty message while another client is
\* registered
C16_Witness ==
    /\ call.op = "Send" /\ call.err = NoError
    /\ call.args[2] = ""
    /\ Cardinality(DOMAIN clients) >= 2
    /\ logs[Len(logs)] = Message(nextID - 1, call.args[1], "")
    /\ clients[call.args[1]].LastSeen = nextID - 1

\* C18: a successful GetUpdates(A, lastMsgID) returns NewMsgID >= lastMsgID,
\* also for a lastMsgID above every id of the log; when the log holds no
\* message with id > lastMsgID of a sender other than A, the reply is empty
\* and NewMsgID = lastMsgID.
C18_WatermarkNeverRegresses ==
    UpdatesReturned =>
        /\ call.reply.NewMsgID >= call.args[2]
        /\ NewerIDsOfOthers(call.args[1], call.args[2]) = {} =>
              /\ call.reply.Messages = <<>>
              /\ call.reply.NewMsgID = call.args[2]

\* GetUpdates was called with a lastMsgID above the highest id of a log
\* that is not empty
C18_Witness ==
    /\ UpdatesReturned
    /\ Len(logs) > 0
    /\ \A i \in 1..Len(logs) : logs[i].ID < call.args[2]
    /\ call.reply.NewMsgID = call.args[2]

\* the number of log messages of sender "System" with the given content
Notices(content) ==
    Cardinality({ i \in 1..Len(logs) :
                    logs[i].Sender = "System" /\ logs[i].Content = content })

\* C19: for every name n, the join notices for n in the log minus the leave
\* notices for n are 1 if n is a registry key and 0 otherwise.
C19_NoticeAccounting ==
    \A n \in AssignableNames :
        Notices(JoinNotice(n)) - Notices(LeaveNotice(n)) =
            IF n \in DOMAIN clients THEN 1 ELSE 0

\* C20: whenever the chat loop is left ("exit" typed, or a Send failed), the
\* deferred shutdown eventually stops the receiver, issues Leave, and the
\* process ends, also when the receiver has hit a GetUpdates error.
C20_ShutdownCompletes ==
    (main = "stopping") ~> (main = "done" /\ proc.pc = "stopped")

\* C17: once a session has called Leave with its assigned id, every Send or
\* GetUpdates it issues with that id afterwards fails ("user not
\* registered" / "unknown client"), whatever Joins other sessions have made
\* meanwhile, Joins requesting the same name included.
C17_LeftSessionIsRefused ==
    main = "done" /\ call.by = "client" /\ call.op \in {"Send", "GetUpdates"}
        => call.err = IF call.op = "Send" THEN ErrNotRegistered
                      ELSE ErrUnknownClient
====
